---- MODULE Spec2Model ----
(***************************************************************************)
(* Model of react-fields: the Form controller (src/unnamed/part_000) and   *)
(* the Fields schema walker (src/lib/fields.jsx).                          *)
(*                                                                         *)
(* JavaScript objects live in a heap (a sequence of objects addressed by   *)
(* their index), so that reference identity, shallow copies and in-place   *)
(* mutation are what the code makes them.  React's setState is modelled as *)
(* an immediate replacement of the named state key.  The free identifier   *)
(* `_` of part_000 is taken to be lodash, as imported in fields.jsx.       *)
(***************************************************************************)
EXTENDS Integers, Sequences, FiniteSets, TLC

\* ------------------------------------------------------------------ bounds
MaxCycles == 2      \* submit() calls explored
MaxEvents == 3      \* user events explored (submit clicks plus field edits)

Cycles == 1..MaxCycles

\* ------------------------------------------------------- value-tree heap
Keys == {"name", "address", "city"}
Prims == {1, 2}

Undef == [t |-> "undef", v |-> 0]
Prim(n) == [t |-> "prim", v |-> n]
Ref(i) == [t |-> "ref", v |-> i]

\* {} : an object without own properties
EmptyObject == [k \in Keys |-> Undef]

\* the field paths of the schema, normalized to key sequences
Paths == {<<"name">>, <<"address", "city">>}

\* lodash _.get(object, path) on the heap
RECURSIVE Get(_, _, _)
Get(h, val, path) ==
  IF path = <<>> THEN val
  ELSE IF val.t # "ref" THEN Undef
  ELSE IF Head(path) \notin DOMAIN h[val.v] THEN Undef
  ELSE Get(h, h[val.v][Head(path)], Tail(path))

\* lodash _.set(object, path, value): walks the path, creating a fresh {}
\* where the next level is not an object, and assigns IN PLACE.
RECURSIVE LodashSet(_, _, _, _)
LodashSet(h, id, path, val) ==
  IF Len(path) = 1
  THEN [h EXCEPT ![id] = [@ EXCEPT ![path[1]] = val]]
  ELSE LET cur == h[id][path[1]] IN
       IF cur.t = "ref"
       THEN LodashSet(h, cur.v, Tail(path), val)
       ELSE LET nid == Len(h) + 1
                h2 == Append([h EXCEPT ![id] = [@ EXCEPT ![path[1]] = Ref(nid)]],
                             EmptyObject)
            IN LodashSet(h2, nid, Tail(path), val)

\* Object.assign({}, source): a fresh object with source's own properties
ObjectAssign(h, src) == Append(h, h[src])

\* ------------------------------------------------- error / result values
ErrKeys == {"name", "city"}
\* a field-error mapping: per key 0 (absent) or 1 (a message)
EmptyMapping == [k \in ErrKeys |-> 0]

Null == [t |-> "null", summary |-> 0, hasFields |-> FALSE, fields |-> EmptyMapping]
\* a plain field-error mapping, as returned by the validator
Map(m) == [t |-> "map", summary |-> 0, hasFields |-> FALSE, fields |-> m]
\* an object {summaryError?, fieldErrors?}
Obj(s, hf, m) == [t |-> "obj", summary |-> s, hasFields |-> hf, fields |-> m]
\* a string
Str(s) == [t |-> "str", summary |-> s, hasFields |-> FALSE, fields |-> EmptyMapping]

NameRequired == [k \in ErrKeys |-> IF k = "name" THEN 1 ELSE 0]
CityRequired == [k \in ErrKeys |-> IF k = "city" THEN 1 ELSE 0]

\* what the external validator may return, what the external submitter may
\* reject with ({summaryError: ...} or a bare string), and what a failing
\* validator or afterSubmit throws
ValidatorResults == {Map(EmptyMapping), Map(NameRequired), Map(CityRequired)}
Rejections == {Obj(1, FALSE, EmptyMapping), Str(1)}
Failures == {Str(1)}
\* what the external submitter may resolve with (0: a falsy result)
Results == {0, 1}


\* a check that takes every mapping object for an empty one
IsEmptyIgnoresKeys(x) == x.t = "null" \/ x.t = "map"

\* lodash _.isEmpty: null/undefined are empty, an object is empty when it
\* has no own keys, a string when its length is 0
IsEmpty(x) ==
  CASE x.t = "null" -> TRUE
    [] x.t = "map" -> \A k \in ErrKeys : x.fields[k] = 0
    [] x.t = "obj" -> x.summary = 0 /\ ~x.hasFields
    [] x.t = "str" -> x.summary = 0

\* ------------------------------------------------------------------ state
VARIABLES
  values,        \* Form: this.state.values (a heap reference)
  errors,        \* Form: this.state.errors
  heap,          \* the JavaScript objects of the value trees
  props,         \* Form: this.props (value, afterSubmit); fixed after mount
  pc,            \* per submit() call: the await it is suspended at
  cvalues,       \* per submit() call: its local `values`
  calls,         \* per submit() call: the external calls it made, in order
  outcome,       \* per submit() call: the state of the promise it returned
  lastSetState,  \* the last setState({errors}) call: who made it, with what,
                 \* and which submit() calls had finished by then
  finishedBefore,\* per submit() call: the calls that had finished when it began
  lastSet,       \* per field path: the last value its change callback got
  lastChange,    \* the last changeField call: path, tree it read, tree it sent
  nChanges,      \* number of field changes so far
  fprops,        \* Fields: this.props of a Fields rendered on its own
  out            \* Fields: the last call made on it, with what it returned

walkVars == <<fprops, out>>

vars == <<values, errors, heap, props, pc, cvalues, calls, outcome,
          lastSetState, finishedBefore, lastSet, lastChange, nChanges,
          fprops, out>>

formVars == <<pc, cvalues, calls, outcome, lastSetState, finishedBefore, errors>>
fieldVars == <<values, heap, lastSet, lastChange, nChanges>>

NoOutcome == [st |-> "none", e |-> Null]
Ev(op, ev, vals, res, x) == [op |-> op, ev |-> ev, vals |-> vals, res |-> res, x |-> x]

\* Fields.defaultProps.value is object 1, the constructor's state.values
\* object 2; a caller-supplied props.value is
\* {name: 1, address: {city: 1}} (objects 3 and 4).
DefaultValue == 1
SuppliedHeap == <<EmptyObject, EmptyObject,
                  [EmptyObject EXCEPT !["name"] = Prim(1), !["address"] = Ref(4)],
                  [EmptyObject EXCEPT !["city"] = Prim(1)]>>

\* the form has no submit() call and no field change behind it
FormIdle ==
  /\ values = 2
  /\ errors = Null
  /\ pc = [c \in Cycles |-> "idle"]
  /\ cvalues = [c \in Cycles |-> 0]
  /\ calls = [c \in Cycles |-> <<>>]
  /\ outcome = [c \in Cycles |-> NoOutcome]
  /\ lastSetState = [by |-> 0, val |-> Null, done |-> {}]
  /\ finishedBefore = [c \in Cycles |-> {}]
  /\ lastSet = [p \in Paths |-> 0]
  /\ lastChange = [path |-> <<>>, from |-> 0, to |-> 0]
  /\ nChanges = 0

\* no Fields is rendered on its own, and no call was made on one
NoFields == [schema |-> 0]
NoCall == [op |-> "none"]

Init ==
  /\ \E pv \in {0, 3}, as \in BOOLEAN :
       /\ props = [value |-> pv, afterSubmit |-> as]
       /\ heap = IF pv = 0 THEN SubSeq(SuppliedHeap, 1, 2) ELSE SuppliedHeap
  /\ fprops = NoFields
  /\ out = NoCall
  /\ values = 2
  /\ errors = Null
  /\ pc = [c \in Cycles |-> "idle"]
  /\ cvalues = [c \in Cycles |-> 0]
  /\ calls = [c \in Cycles |-> <<>>]
  /\ outcome = [c \in Cycles |-> NoOutcome]
  /\ lastSetState = [by |-> 0, val |-> Null, done |-> {}]
  /\ finishedBefore = [c \in Cycles |-> {}]
  /\ lastSet = [p \in Paths |-> 0]
  /\ lastChange = [path |-> <<>>, from |-> 0, to |-> 0]
  /\ nChanges = 0

\* ---------------------------------------------------------- Form.submit
\* this.setState({ errors: e }) made by submit() call c
Finished == {d \in Cycles : pc[d] = "done"}

SetErrors(c, e) ==
  /\ errors' = e
  /\ lastSetState' = [by |-> c, val |-> e, done |-> Finished]

Log(c, evs) == calls' = [calls EXCEPT ![c] = @ \o evs]
Goto(c, l) == pc' = [pc EXCEPT ![c] = l]
Settle(c, st, e) == outcome' = [outcome EXCEPT ![c] = [st |-> st, e |-> e]]

Started == Cardinality({c \in Cycles : pc[c] # "idle"})

\* a submit button disabled while an earlier submit() call is suspended
CanClickExclusive(c) ==
  /\ pc[c] = "idle" /\ \A d \in Cycles : d < c => pc[d] = "done"
  /\ Started + nChanges < MaxEvents

\* the submit button's onClick (bound in render and renderSubmit): nothing
\* disables it while an earlier call is suspended
CanClick(c) ==
  /\ pc[c] = "idle" /\ \A d \in Cycles : d < c => pc[d] # "idle"
  /\ Started + nChanges < MaxEvents

\* submit() with the await of line 58 forgotten: the pending promise has no
\* own keys, so submit is called while validate is still running
SubmitNoAwait(c) ==
  /\ CanClick(c)
  /\ cvalues' = [cvalues EXCEPT ![c] = values]
  /\ finishedBefore' = [finishedBefore EXCEPT ![c] = Finished]
  /\ SetErrors(c, Null)
  /\ Log(c, <<Ev("validate", "call", values, 0, Null),
              Ev("submit", "call", values, 0, Null)>>)
  /\ Goto(c, "submit")
  /\ Settle(c, "pending", Null)
  /\ UNCHANGED <<props, walkVars, fieldVars>>

\* submit() without the setState of line 55
SubmitNoClear(c) ==
  /\ CanClick(c)
  /\ cvalues' = [cvalues EXCEPT ![c] = values]
  /\ finishedBefore' = [finishedBefore EXCEPT ![c] = Finished]
  /\ Log(c, <<Ev("validate", "call", values, 0, Null)>>)
  /\ Goto(c, "validate")
  /\ Settle(c, "pending", Null)
  /\ UNCHANGED <<props, walkVars, errors, lastSetState, fieldVars>>

\* submit(), lines 53-58, up to the first await
Submit(c) ==
  /\ CanClick(c)
  /\ cvalues' = [cvalues EXCEPT ![c] = values]
  /\ finishedBefore' = [finishedBefore EXCEPT ![c] = Finished]
  /\ SetErrors(c, Null)
  /\ Log(c, <<Ev("validate", "call", values, 0, Null)>>)
  /\ Goto(c, "validate")
  /\ Settle(c, "pending", Null)
  /\ UNCHANGED <<props, walkVars, fieldVars>>

\* lines 58-66: validate resolved with fieldErrors
ValidateReturned(c, fieldErrors) ==
  /\ pc[c] = "validate"
  /\ IF ~IsEmpty(fieldErrors)
     THEN /\ SetErrors(c, Obj(0, TRUE, fieldErrors.fields))
          /\ Log(c, <<Ev("validate", "return", 0, 0, fieldErrors)>>)
          /\ Goto(c, "done")
          /\ Settle(c, "fulfilled", Null)
     ELSE /\ Log(c, <<Ev("validate", "return", 0, 0, fieldErrors),
                      Ev("submit", "call", cvalues[c], 0, Null)>>)
          /\ Goto(c, "submit")
          /\ UNCHANGED <<errors, lastSetState, outcome>>
  /\ UNCHANGED <<props, walkVars, cvalues, finishedBefore, fieldVars>>

\* line 58: validate rejected; no try block encloses the await
ValidateThrew(c, e) ==
  /\ pc[c] = "validate"
  /\ Log(c, <<Ev("validate", "throw", 0, 0, e)>>)
  /\ Goto(c, "done")
  /\ Settle(c, "rejected", e)
  /\ UNCHANGED <<props, walkVars, cvalues, finishedBefore, errors, lastSetState, fieldVars>>

\* afterSubmit called only after a falsy result, as the propTypes comment
\* of lines 21-23 words it
SubmitReturnedFalsyOnly(c, res) ==
  /\ pc[c] = "submit"
  /\ IF props.afterSubmit /\ res = 0
     THEN /\ Log(c, <<Ev("submit", "return", 0, res, Null),
                      Ev("afterSubmit", "call", cvalues[c], res, Null)>>)
          /\ Goto(c, "afterSubmit")
          /\ UNCHANGED outcome
     ELSE /\ Log(c, <<Ev("submit", "return", 0, res, Null)>>)
          /\ Goto(c, "done")
          /\ Settle(c, "fulfilled", Null)
  /\ UNCHANGED <<props, walkVars, cvalues, finishedBefore, errors, lastSetState, fieldVars>>

\* submit() parked after the submitter's result, waiting for an event that
\* no handler delivers
SubmitReturnedParks(c, res) ==
  /\ pc[c] = "submit"
  /\ Log(c, <<Ev("submit", "return", 0, res, Null)>>)
  /\ Goto(c, "parked")
  /\ UNCHANGED <<props, walkVars, cvalues, finishedBefore, errors, lastSetState,
                 outcome, fieldVars>>

\* lines 66, 72-75: submit resolved with res
SubmitReturned(c, res) ==
  /\ pc[c] = "submit"
  /\ IF props.afterSubmit
     THEN /\ Log(c, <<Ev("submit", "return", 0, res, Null),
                      Ev("afterSubmit", "call", cvalues[c], res, Null)>>)
          /\ Goto(c, "afterSubmit")
          /\ UNCHANGED outcome
     ELSE /\ Log(c, <<Ev("submit", "return", 0, res, Null)>>)
          /\ Goto(c, "done")
          /\ Settle(c, "fulfilled", Null)
  /\ UNCHANGED <<props, walkVars, cvalues, finishedBefore, errors, lastSetState, fieldVars>>

\* the catch block storing the rejection under fieldErrors, the way line 60
\* stores the validator's mapping
SubmitThrewWrapped(c, e) ==
  /\ pc[c] = "submit"
  /\ SetErrors(c, Obj(0, TRUE, e.fields))
  /\ Log(c, <<Ev("submit", "throw", 0, 0, e)>>)
  /\ Goto(c, "done")
  /\ Settle(c, "fulfilled", Null)
  /\ UNCHANGED <<props, walkVars, cvalues, finishedBefore, fieldVars>>

\* lines 67-70: submit rejected, caught
SubmitThrew(c, e) ==
  /\ pc[c] = "submit"
  /\ SetErrors(c, e)
  /\ Log(c, <<Ev("submit", "throw", 0, 0, e)>>)
  /\ Goto(c, "done")
  /\ Settle(c, "fulfilled", Null)
  /\ UNCHANGED <<props, walkVars, cvalues, finishedBefore, fieldVars>>

\* lines 73-75: afterSubmit completed; its value is dropped
AfterSubmitReturned(c) ==
  /\ pc[c] = "afterSubmit"
  /\ Log(c, <<Ev("afterSubmit", "return", 0, 0, Null)>>)
  /\ Goto(c, "done")
  /\ Settle(c, "fulfilled", Null)
  /\ UNCHANGED <<props, walkVars, cvalues, finishedBefore, errors, lastSetState, fieldVars>>

\* afterSubmit awaited inside the try block of lines 65-70
AfterSubmitThrewCaught(c, e) ==
  /\ pc[c] = "afterSubmit"
  /\ SetErrors(c, e)
  /\ Log(c, <<Ev("afterSubmit", "throw", 0, 0, e)>>)
  /\ Goto(c, "done")
  /\ Settle(c, "fulfilled", Null)
  /\ UNCHANGED <<props, walkVars, cvalues, finishedBefore, fieldVars>>

\* line 73: afterSubmit failed; no try block encloses the await
AfterSubmitThrew(c, e) ==
  /\ pc[c] = "afterSubmit"
  /\ Log(c, <<Ev("afterSubmit", "throw", 0, 0, e)>>)
  /\ Goto(c, "done")
  /\ Settle(c, "rejected", e)
  /\ UNCHANGED <<props, walkVars, cvalues, finishedBefore, errors, lastSetState, fieldVars>>

\* ------------------------------------------------- Fields.changeField
\* Form.render hands Fields `value: this.props.value`; renderFields drops a
\* falsy option, so Fields.defaultProps.value stands in for it
FieldsValue == IF props.value = 0 THEN DefaultValue ELSE props.value

\* an onChange that merges into the stored tree and keeps it
OnChangeMergeInPlace(tree) == values' = values

\* Form.onChange(values): this.setState({ values })
OnChange(tree) == values' = tree

\* the change callback of the field at fieldPath, invoked with fieldValue:
\* changeField computes the tree and Form.onChange stores it
ChangeField(fieldPath, fieldValue) ==
  /\ Started + nChanges < MaxEvents
  /\ LET copied == ObjectAssign(heap, FieldsValue)
         tree == Len(copied)
     IN /\ heap' = LodashSet(copied, tree, fieldPath, Prim(fieldValue))
        /\ OnChange(tree)
        /\ lastChange' = [path |-> fieldPath, from |-> FieldsValue, to |-> tree]
  /\ lastSet' = [lastSet EXCEPT ![fieldPath] = fieldValue]
  /\ nChanges' = nChanges + 1
  /\ UNCHANGED <<props, walkVars, formVars>>

\* ------------------------------------------------------ Fields: inputs
MaxPathLen == 2     \* longest key sequence handed to a Fields call

\* A schema is a table of nodes, node 1 its root.  A node is a nested schema
\* (kids: key -> node, 0 where the key is absent; order: the keys in
\* insertion order) or a field definition (title, type, rules.required,
\* fieldComponent, fieldComponentProps).
PropKeys == {"value", "onChange", "error", "schema", "required", "placeholder"}
NoProp == [src |-> "none", v |-> Undef]
NoProps == [k \in PropKeys |-> NoProp]
\* component props given at one level, naming that level
Overrides(level) ==
  [k \in PropKeys |->
     IF k \in {"value", "required", "placeholder"}
     THEN [src |-> level, v |-> Prim(2)] ELSE NoProp]

NoKids == [k \in Keys |-> 0]
SchemaNode(kids, order) ==
  [kind |-> "schema", kids |-> kids, order |-> order, title |-> 0, type |-> "",
   required |-> Undef, fieldComponent |-> "", fieldComponentProps |-> NoProps]
FieldDefinition(title, type, required, component, cprops) ==
  [kind |-> "def", kids |-> NoKids, order |-> <<>>, title |-> title, type |-> type,
   required |-> required, fieldComponent |-> component, fieldComponentProps |-> cprops]

\* {name: {...}, address: {city: {...}}}
NestedSchema ==
  <<SchemaNode([NoKids EXCEPT !["name"] = 2, !["address"] = 3], <<"name", "address">>),
    FieldDefinition(1, "string", Prim(1), "", NoProps),
    SchemaNode([NoKids EXCEPT !["city"] = 4], <<"city">>),
    FieldDefinition(0, "custom", Undef, "CityPicker", Overrides("field"))>>
\* {name: {...}, city: {...}, address: {...}}, keys inserted in this order
FlatSchema ==
  <<SchemaNode([NoKids EXCEPT !["name"] = 2, !["city"] = 3, !["address"] = 4],
               <<"name", "city", "address">>),
    FieldDefinition(1, "string", Prim(1), "", Overrides("field")),
    FieldDefinition(0, "number", Undef, "CityPicker", NoProps),
    FieldDefinition(0, "custom", Undef, "", NoProps)>>
Schemas == <<NestedSchema, FlatSchema>>

\* fieldTypes: 0 none given; 1 the default of renderFields; 2 a caller's
NoType == [defined |-> FALSE, fieldComponent |-> "", fieldComponentProps |-> NoProps]
TypeEntry(component, cprops) ==
  [defined |-> TRUE, fieldComponent |-> component, fieldComponentProps |-> cprops]
FieldTypes(registry, type) ==
  CASE registry = 1 /\ type = "string" -> TypeEntry("TextInput", NoProps)
    [] registry = 1 /\ type = "number" -> TypeEntry("NumberInput", NoProps)
    [] registry = 2 /\ type = "string" -> TypeEntry("TextInput", Overrides("type"))
    [] registry = 2 /\ type = "custom" -> TypeEntry("Select", Overrides("type"))
    [] OTHER -> NoType

\* a field path as a caller writes it: a string (here its tokens: keys and
\* dots), an array of keys, or nothing
\* the keys a path is written with: those of fields, and one of a definition
PathKeys == Keys \cup {"title"}
KeySeqs == UNION {[1..n -> PathKeys] : n \in 1..MaxPathLen}
RECURSIVE Join(_)
Join(keys) ==
  IF Len(keys) = 1 THEN keys ELSE <<Head(keys), ".">> \o Join(Tail(keys))
StringPath(tokens) == [kind |-> "string", s |-> tokens]
ArrayPath(keys) == [kind |-> "array", s |-> keys]
NoPath == [kind |-> "none", s |-> <<>>]
RawPaths ==
  {StringPath(Join(ks)) : ks \in KeySeqs} \cup {ArrayPath(ks) : ks \in KeySeqs}
    \cup {StringPath(<<>>), StringPath(<<"name", ".">>), StringPath(<<"name", "city">>),
          NoPath}

\* String.prototype.split('.'): the segments between the dots; a segment is
\* a key when it is one token, the empty key when it has none, and a key of
\* no object ("?") when it runs tokens together
SegmentKey(seg) == IF Len(seg) = 1 THEN seg[1] ELSE IF seg = <<>> THEN "" ELSE "?"
RECURSIVE SplitFrom(_, _)
SplitFrom(tokens, seg) ==
  IF tokens = <<>> THEN <<SegmentKey(seg)>>
  ELSE IF Head(tokens) = "." THEN <<SegmentKey(seg)>> \o SplitFrom(Tail(tokens), <<>>)
  ELSE SplitFrom(Tail(tokens), Append(seg, Head(tokens)))
Split(tokens) == SplitFrom(tokens, <<>>)

\* what _.get finds in a schema: a node of it, the title inside a field
\* definition (a string), or nothing
Found(node) == [node |-> node, attr |-> ""]
NotFound == Found(0)
\* lodash _.get(schema, path), descending from node
RECURSIVE SchemaGet(_, _, _)
SchemaGet(schema, node, path) ==
  IF path = <<>> THEN Found(node)
  ELSE IF node = 0 THEN NotFound
  ELSE IF Head(path) \in Keys
       THEN SchemaGet(schema, schema[node].kids[Head(path)], Tail(path))
  ELSE IF Head(path) = "title" /\ schema[node].title # 0 /\ Tail(path) = <<>>
       THEN [node |-> node, attr |-> "title"]
  ELSE NotFound
\* the properties the code reads off a fieldSchema: those of the node, and
\* none when the fieldSchema is a string
Read(schema, fieldSchema) ==
  IF fieldSchema.attr = "" THEN schema[fieldSchema.node]
  ELSE FieldDefinition(0, "", Undef, "", NoProps)

\* lodash _.get(error, path) on a field-error mapping, whose entry "city"
\* is the one of the city field, nested or not
ErrorGet(error, path) ==
  LET k == IF path = <<"name">> THEN "name"
           ELSE IF path \in {<<"city">>, <<"address", "city">>} THEN "city" ELSE ""
  IN IF error.t = "map" /\ k \in ErrKeys /\ error.fields[k] = 1 THEN Prim(1) ELSE Undef

\* ------------------------------------------------ Fields.getFieldData
\* lines 100-103: the array of keys a raw path stands for
KeysOfPath(raw) == IF raw.kind = "string" THEN Split(raw.s) ELSE raw.s
NullString == [null |-> TRUE, s |-> <<>>]
Failed(why, fieldPathString) == [failed |-> TRUE, why |-> why, path |-> fieldPathString]

\* getFieldData, lines 97-141
GetFieldData(P, raw) ==
  LET fieldPathString == IF raw.kind = "string" THEN [null |-> FALSE, s |-> raw.s]
                         ELSE NullString
      fieldPath == KeysOfPath(raw)
      isPath == raw.kind # "none"
      fieldSchema == IF isPath THEN SchemaGet(Schemas[P.schema], 1, fieldPath)
                     ELSE Found(1)
  IN IF fieldSchema.node = 0 THEN Failed("not defined in the schema", fieldPathString)
     ELSE [failed |-> FALSE,
           fieldPath |-> [null |-> ~isPath, keys |-> fieldPath],
           fieldPathString |-> fieldPathString,
           fieldSchema |-> fieldSchema,
           fieldError |-> IF isPath THEN ErrorGet(P.error, fieldPath) ELSE P.error,
           fieldType |-> FieldTypes(P.fieldTypes, Read(Schemas[P.schema], fieldSchema).type),
           value |-> IF isPath THEN Get(heap, Ref(P.value), fieldPath) ELSE Ref(P.value)]

\* ------------------------------------------ Fields.changeField
\* changeField(fieldPath, fieldValue, fieldPathString) as the onChange of a
\* field data calls it: the heap it leaves and what it hands to props.onChange
ChangeFieldCall(P, raw, fieldValue) ==
  LET fd == GetFieldData(P, raw)
      copy == Len(heap) + 1
      set == LodashSet(ObjectAssign(heap, P.value), copy, fd.fieldPath.keys, Prim(fieldValue))
  IN [heap |-> IF fd.fieldPath.null THEN heap ELSE set,
      called |-> P.onChange,
      value |-> IF fd.fieldPath.null THEN Prim(fieldValue) ELSE Ref(copy),
      fieldPathString |-> fd.fieldPathString,
      fieldValue |-> Prim(fieldValue),
      fieldPath |-> fd.fieldPath]

\* ------------------------------------- Fields.getPropsForFieldData
\* {...hi, ...lo}
SpreadKeepLeft(lo, hi) == [k \in PropKeys |-> IF lo[k].src # "none" THEN lo[k] ELSE hi[k]]
\* {...lo, ...hi}
Spread(lo, hi) == [k \in PropKeys |-> IF hi[k].src # "none" THEN hi[k] ELSE lo[k]]

\* lines 147-151
BaseProps(P, fd) ==
  [k \in PropKeys |->
     CASE k = "value" -> [src |-> "base", v |-> fd.value]
       [] k = "onChange" -> [src |-> "base", v |-> fd.fieldPath]
       [] k = "error" -> [src |-> "base", v |-> fd.fieldError]
       [] k = "schema" -> [src |-> "base", v |-> fd.fieldSchema]
       [] k = "required" -> [src |-> "base", v |-> Read(Schemas[P.schema], fd.fieldSchema).required]
       [] OTHER -> NoProp]

\* the merge with the field-level props spread last
GetPropsFieldLevelLast(P, fd) ==
  Spread(Spread(Spread(BaseProps(P, fd), P.fieldComponentProps),
                fd.fieldType.fieldComponentProps),
         Read(Schemas[P.schema], fd.fieldSchema).fieldComponentProps)

\* getPropsForFieldData, lines 143-156
GetPropsForFieldData(P, fd) ==
  Spread(Spread(Spread(BaseProps(P, fd), P.fieldComponentProps),
                Read(Schemas[P.schema], fd.fieldSchema).fieldComponentProps),
         fd.fieldType.fieldComponentProps)

\* propsFor, lines 158-161
PropsFor(P, raw) ==
  LET fieldData == GetFieldData(P, raw)
  IN IF fieldData.failed THEN fieldData
     ELSE [failed |-> FALSE, props |-> GetPropsForFieldData(P, fieldData)]

\* ------------------------------------------------- Fields.renderField
\* a || b on components, "" being none
Or(a, b) == IF a # "" THEN a ELSE b

\* renderField asking the type registry before the field definition
RenderFieldRegistryFirst(P, rawFieldPath, fieldProps, fieldComponent) ==
  LET fieldData == GetFieldData(P, rawFieldPath)
      FieldComponent == Or(fieldComponent,
                           Or(fieldData.fieldType.fieldComponent,
                              Read(Schemas[P.schema], fieldData.fieldSchema).fieldComponent))
  IN IF fieldData.failed THEN fieldData
     ELSE IF FieldComponent = "" THEN Failed("no component", fieldData.fieldPathString)
     ELSE [failed |-> FALSE, key |-> fieldData.fieldPathString,
           component |-> FieldComponent,
           props |-> Spread(GetPropsForFieldData(P, fieldData), fieldProps)]

\* renderField, lines 163-198
RenderField(P, rawFieldPath, fieldProps, fieldComponent) ==
  LET fieldData == GetFieldData(P, rawFieldPath)
      FieldComponent == Or(fieldComponent,
                           Or(Read(Schemas[P.schema], fieldData.fieldSchema).fieldComponent,
                              fieldData.fieldType.fieldComponent))
  IN IF fieldData.failed THEN fieldData
     ELSE IF FieldComponent = "" THEN Failed("no component", fieldData.fieldPathString)
     ELSE [failed |-> FALSE, key |-> fieldData.fieldPathString,
           component |-> FieldComponent,
           props |-> Spread(GetPropsForFieldData(P, fieldData), fieldProps)]

\* ---------------------------------------------- Fields.renderAllFields
\* the letters of a key, as their places in the alphabet
Spelling ==
  [name |-> <<14, 1, 13, 5>>, city |-> <<3, 9, 20, 25>>,
   address |-> <<1, 4, 4, 18, 5, 19, 19>>]
\* a < b on strings: at the first place they differ, or a a proper prefix
RECURSIVE Before(_, _)
Before(a, b) ==
  IF b = <<>> THEN FALSE
  ELSE IF a = <<>> THEN TRUE
  ELSE IF Head(a) # Head(b) THEN Head(a) < Head(b)
  ELSE Before(Tail(a), Tail(b))
\* one name put into a sorted list, behind the names equal to it
RECURSIVE Insert(_, _)
Insert(sorted, name) ==
  IF sorted = <<>> THEN <<name>>
  ELSE IF Before(Spelling[name], Spelling[Head(sorted)]) THEN <<name>> \o sorted
  ELSE <<Head(sorted)>> \o Insert(Tail(sorted), name)
\* a sortBy that leaves the names as they come
SortByNothing(names) == names
\* lodash _.sortBy(names): ascending and stable
RECURSIVE SortBy(_)
SortBy(names) ==
  IF names = <<>> THEN <<>>
  ELSE Insert(SortBy(SubSeq(names, 1, Len(names) - 1)), names[Len(names)])

\* props.fields: not given, or the explicit lists of fields a caller gives
NoList == [given |-> FALSE, names |-> <<>>]
FieldLists ==
  {NoList, [given |-> TRUE, names |-> <<"name", "city">>],
   [given |-> TRUE, names |-> <<"name">>],
   [given |-> TRUE, names |-> <<"city", "address", "name">>]}

\* one item of renderAllFields, lines 205-210
RenderItem(P, fieldName) ==
  LET kid == Schemas[P.schema][1].kids[fieldName]
  IN IF kid = 0 THEN Failed("TypeError", StringPath(<<fieldName>>))
     ELSE [failed |-> FALSE, key |-> fieldName,
           label |-> IF Schemas[P.schema][kid].title # 0 THEN "title" ELSE "titleize",
           field |-> RenderField(P, StringPath(<<fieldName>>), NoProps, "")]

\* renderAllFields, lines 201-214
RenderAllFields(P) ==
  LET fieldNames == Schemas[P.schema][1].order
      sortedFieldNames == IF P.fields.given THEN P.fields.names ELSE SortBy(fieldNames)
      items == [i \in 1..Len(sortedFieldNames) |-> RenderItem(P, sortedFieldNames[i])]
      broken == {i \in 1..Len(items) : items[i].failed \/ items[i].field.failed}
  IN IF broken = {} THEN [failed |-> FALSE, items |-> items]
     ELSE LET first == CHOOSE i \in broken : \A j \in broken : i <= j
          IN IF items[first].failed THEN items[first] ELSE items[first].field

\* ------------------------------------ Form.render -> renderFields -> Fields
\* the schema of the form is the nested one
FormSchema == 1

\* Form.render, lines 106-117: the options handed to renderFields
FormOptions ==
  [value |-> props.value,
   onChange |-> TRUE,
   errors |-> IF errors.t = "obj" /\ errors.hasFields THEN Map(errors.fields) ELSE Null]

\* renderFields, lines 249-268, and Fields.defaultProps: an option is a prop
\* of Fields under its own name, unless it is falsy
RenderFields(schema, options) ==
  [schema |-> schema,
   value |-> IF "value" \in DOMAIN options /\ options.value # 0
             THEN options.value ELSE DefaultValue,
   error |-> IF "error" \in DOMAIN options THEN options.error ELSE Null,
   fieldTypes |-> IF "fieldTypes" \in DOMAIN options /\ options.fieldTypes # 0
                  THEN options.fieldTypes ELSE 1,
   fieldComponentProps |-> IF "fieldComponentProps" \in DOMAIN options
                           THEN options.fieldComponentProps ELSE NoProps,
   fields |-> IF "fields" \in DOMAIN options THEN options.fields ELSE NoList,
   onChange |-> "onChange" \in DOMAIN options /\ options.onChange]

\* the props of the Fields the form renders
FormFields == RenderFields(FormSchema, FormOptions)

\* ------------------------------------------------- Fields on its own
\* the props a caller may render a Fields with
FieldsProps ==
  [schema : {1, 2},
   value : {DefaultValue, 3},
   error : {Null, Map(NameRequired), Map(CityRequired)},
   fieldTypes : {0, 1, 2},
   fieldComponentProps : {NoProps, Overrides("global")},
   fields : {NoList},
   onChange : {TRUE}]
  \cup
  [schema : {1, 2},
   value : {DefaultValue, 3},
   error : {Null},
   fieldTypes : {0, 1, 2},
   fieldComponentProps : {NoProps},
   fields : FieldLists \ {NoList},
   onChange : {TRUE}]

InitWalker ==
  /\ FormIdle
  /\ props = [value |-> 0, afterSubmit |-> FALSE]
  /\ heap = SuppliedHeap
  /\ fprops \in FieldsProps
  /\ out = NoCall

formState == <<values, errors, props, pc, cvalues, calls, outcome, lastSetState,
               finishedBefore, lastSet, lastChange, nChanges>>

\* a caller gets the field data of a path
CallGetFieldData(raw) ==
  /\ out = NoCall
  /\ out' = [op |-> "getFieldData", raw |-> raw, data |-> GetFieldData(fprops, raw)]
  /\ UNCHANGED <<fprops, heap, formState>>

\* a caller asks for the props of a field
CallPropsFor(raw) ==
  /\ out = NoCall
  /\ out' = [op |-> "propsFor", raw |-> raw, data |-> GetFieldData(fprops, raw),
             result |-> PropsFor(fprops, raw)]
  /\ UNCHANGED <<fprops, heap, formState>>

\* the props and the component a caller may give to one renderField
CallProps == {NoProps, Overrides("call")}
Components == {"", "Slider"}

\* a caller renders a field: render(path, props) or
\* renderComponent(path, Component, props), lines 89-95
CallRenderField(raw, fieldProps, fieldComponent) ==
  /\ out = NoCall
  /\ out' = [op |-> "renderField", raw |-> raw, data |-> GetFieldData(fprops, raw),
             fieldProps |-> fieldProps, fieldComponent |-> fieldComponent,
             result |-> RenderField(fprops, raw, fieldProps, fieldComponent)]
  /\ UNCHANGED <<fprops, heap, formState>>

\* Fields.render without a render function, lines 216-217
CallRenderAllFields ==
  /\ out = NoCall
  /\ out' = [op |-> "renderAllFields", result |-> RenderAllFields(fprops)]
  /\ UNCHANGED <<fprops, heap, formState>>

\* a field component calls the onChange of its props with a new value; the
\* value tree holds the keys of fields only
InvokeOnChange(raw, fieldValue) ==
  /\ out = NoCall
  /\ ~GetFieldData(fprops, raw).failed
  /\ \A i \in 1..Len(KeysOfPath(raw)) : KeysOfPath(raw)[i] \in Keys
  /\ heap' = ChangeFieldCall(fprops, raw, fieldValue).heap
  /\ out' = [op |-> "onChange", raw |-> raw,
             forwarded |-> ChangeFieldCall(fprops, raw, fieldValue)]
  /\ UNCHANGED <<fprops, formState>>

NextWalker ==
  \/ \E raw \in RawPaths : CallGetFieldData(raw)
  \/ \E raw \in RawPaths : CallPropsFor(raw)
  \/ \E raw \in RawPaths, fieldProps \in CallProps, fieldComponent \in Components :
       CallRenderField(raw, fieldProps, fieldComponent)
  \/ CallRenderAllFields
  \/ \E raw \in RawPaths, fieldValue \in Prims : InvokeOnChange(raw, fieldValue)

SpecWalker == InitWalker /\ [][NextWalker]_vars

Next ==
  \/ \E c \in Cycles : Submit(c)
  \/ \E c \in Cycles, fe \in ValidatorResults : ValidateReturned(c, fe)
  \/ \E c \in Cycles, e \in Failures : ValidateThrew(c, e)
  \/ \E c \in Cycles, r \in Results : SubmitReturned(c, r)
  \/ \E c \in Cycles, e \in Rejections : SubmitThrew(c, e)
  \/ \E c \in Cycles : AfterSubmitReturned(c)
  \/ \E c \in Cycles, e \in Failures : AfterSubmitThrew(c, e)
  \/ \E p \in Paths, v \in Prims : ChangeField(p, v)

Spec == Init /\ [][Next]_vars

\* the promise submit() call c awaits settles: lines 58, 66 and 73
Complete(c) ==
  \/ \E fe \in ValidatorResults : ValidateReturned(c, fe)
  \/ \E e \in Failures : ValidateThrew(c, e)
  \/ \E r \in Results : SubmitReturned(c, r)
  \/ \E e \in Rejections : SubmitThrew(c, e)
  \/ AfterSubmitReturned(c)
  \/ \E e \in Failures : AfterSubmitThrew(c, e)

\* the steps of the submit() calls alone: a field change reads and writes
\* nothing a submit() call reads after its trigger
SubmitStep == \E c \in Cycles : Submit(c) \/ Complete(c)

\* the form under clicks on the submit button, every external call a
\* submit() awaits completing in the end
FairSpec == Init /\ [][SubmitStep]_vars /\ \A c \in Cycles : WF_vars(Complete(c))

\* ================================================================ claims
Last(q) == q[Len(q)]
Has(c, op, ev) == \E i \in 1..Len(calls[c]) : calls[c][i].op = op /\ calls[c][i].ev = ev
Count(c, op, ev) ==
  Cardinality({i \in 1..Len(calls[c]) : calls[c][i].op = op /\ calls[c][i].ev = ev})

\* the validator of call c has returned a mapping with at least one key
GateClosed(c) ==
  \E i \in 1..Len(calls[c]) :
    /\ calls[c][i].op = "validate" /\ calls[c][i].ev = "return"
    /\ calls[c][i].x.fields # EmptyMapping
ValidatorMapping(c) ==
  (CHOOSE ev \in {calls[c][i] : i \in 1..Len(calls[c])} :
     ev.op = "validate" /\ ev.ev = "return").x.fields

\* call c finishes in this step
Finishes(c) == pc[c] # "done" /\ pc'[c] = "done"

\* C1 - validation gate: once the validator of a submit() call has returned
\* a non-empty mapping m, that call never invokes submit or afterSubmit, and
\* the step in which the validator returns ends the call with
\* errors = {fieldErrors: m}.
C1_ValidationGate ==
  [][\A c \in Cycles :
       /\ GateClosed(c)' =>
            ~Has(c, "submit", "call")' /\ ~Has(c, "afterSubmit", "call")'
       /\ (~GateClosed(c) /\ GateClosed(c)') =>
            /\ pc'[c] = "done"
            /\ errors' = Obj(0, TRUE, ValidatorMapping(c)')]_vars

C1_Witness ==
  \E c \in Cycles :
    /\ pc[c] = "done" /\ GateClosed(c)
    /\ ValidatorMapping(c) = NameRequired
    /\ errors = Obj(0, TRUE, NameRequired)

\* C2 - submit rejection: the step in which the submitter of a call rejects
\* with e leaves errors = e, whatever e is, and ends the call; a call whose
\* submitter rejected never invokes afterSubmit.
C2_SubmitRejection ==
  [][\A c \in Cycles :
       /\ Has(c, "submit", "throw")' => ~Has(c, "afterSubmit", "call")'
       /\ (~Has(c, "submit", "throw") /\ Has(c, "submit", "throw")') =>
            /\ errors' = Last(calls'[c]).x
            /\ pc'[c] = "done"]_vars

C2_Witness ==
  \E c \in Cycles :
    /\ pc[c] = "done" /\ Has(c, "submit", "throw")
    /\ Last(calls[c]).x = Str(1)
    /\ errors = Str(1)

\* the submitter of call c resolved, and with what
SubmitResult(c) ==
  (CHOOSE ev \in {calls[c][i] : i \in 1..Len(calls[c])} :
     ev.op = "submit" /\ ev.ev = "return").res

\* afterSubmit was invoked exactly once by call c, with (values, res) of c
AfterSubmitOnce(c) ==
  /\ Count(c, "afterSubmit", "call") = 1
  /\ \E i \in 1..Len(calls[c]) :
       calls[c][i] = Ev("afterSubmit", "call", cvalues[c], SubmitResult(c), Null)

CallOrder == <<"validate", "validate", "submit", "submit", "afterSubmit", "afterSubmit">>
C4_StrictOrder ==
  \A c \in Cycles :
    /\ Len(calls[c]) <= Len(CallOrder)
    /\ \A i \in 1..Len(calls[c]) :
         /\ calls[c][i].op = CallOrder[i]
         /\ (i % 2 = 1) => calls[c][i].ev = "call"
         /\ (i % 2 = 0) => calls[c][i].ev \in {"return", "throw"}

C4_Witness ==
  \E c \in Cycles : Len(calls[c]) = 6 /\ Last(calls[c]).ev = "return"

\* C5 as stated - every failure of the validator or of the submitter is
\* caught by submit(): the promise submit() returned is rejected only by a
\* failure of afterSubmit.
C5_OnlyAfterSubmitEscapes ==
  \A c \in Cycles :
    outcome[c].st = "rejected" =>
      Last(calls[c]).op = "afterSubmit" /\ Last(calls[c]).ev = "throw"

\* the external call of c that failed in this step
Throws(c, op) == ~Has(c, op, "throw") /\ Has(c, op, "throw")'

\* C6 as stated - when afterSubmit fails, the promise of submit() is rejected
\* with that failure, errors stays none and the value tree is unchanged.
C6_AsStated ==
  [][\A c \in Cycles :
       Throws(c, "afterSubmit") =>
         /\ outcome'[c] = [st |-> "rejected", e |-> Last(calls'[c]).x]
         /\ errors' = Null
         /\ values' = values /\ heap' = heap]_vars

\* C6 as amended - ... is rejected with that failure and the failure is not
\* written to errors: errors is left as it was (none, unless another,
\* overlapping call has written it), and the value tree is unchanged.
C6_AfterSubmitPropagates ==
  [][\A c \in Cycles :
       Throws(c, "afterSubmit") =>
         /\ outcome'[c] = [st |-> "rejected", e |-> Last(calls'[c]).x]
         /\ errors' = errors /\ lastSetState' = lastSetState
         /\ lastSetState.by = c => errors' = Null
         /\ values' = values /\ heap' = heap]_vars

C6_Witness ==
  \E c \in Cycles :
    /\ pc[c] = "done" /\ Has(c, "afterSubmit", "throw")
    /\ outcome[c] = [st |-> "rejected", e |-> Str(1)]
    /\ errors = Null

\* every write of errors replaces it: with none in the step that begins a
\* submit() call and invokes its validator, with exactly {fieldErrors: m} for
\* the mapping m its validator returned, or with exactly the value its
\* submitter rejected with
ErrorsReplaced ==
  (lastSetState' # lastSetState \/ errors' # errors) =>
    /\ errors' = lastSetState'.val
    /\ \E c \in Cycles :
         /\ c = lastSetState'.by
         /\ \/ /\ errors' = Null
               /\ pc[c] = "idle"
               /\ calls'[c] = <<Ev("validate", "call", values, 0, Null)>>
            \/ /\ ~GateClosed(c) /\ GateClosed(c)'
               /\ errors' = Obj(0, TRUE, ValidatorMapping(c)')
            \/ /\ Throws(c, "submit")
               /\ errors' = Last(calls'[c]).x

\* C7 as stated - errors is replaced, never merged, so no error written by
\* an earlier submit() call is in errors when a later call finishes.
C7_AsStated ==
  [][/\ ErrorsReplaced
     /\ \A a, c \in Cycles :
          (a < c /\ Finishes(c)) => ~(lastSetState'.by = a /\ errors' # Null)]_vars

\* C7 as amended - errors is replaced, never merged, so no error written by
\* a submit() call that had finished before a later call began is in errors
\* once the later call has begun.
C7_ErrorsReplaced ==
  [][/\ ErrorsReplaced
     /\ \A a, c \in Cycles :
          a \in finishedBefore'[c] => lastSetState'.by # a]_vars

C7_Witness ==
  \E a, c \in Cycles :
    /\ a \in finishedBefore[c] /\ pc[c] = "done"
    /\ GateClosed(a) /\ ValidatorMapping(a) = NameRequired
    /\ Has(c, "submit", "throw") /\ errors = Obj(1, FALSE, EmptyMapping)

\* C8 - overlapping submit() calls are not excluded: while an earlier call
\* is in flight a new call can begin, and errors is what the last
\* setState({errors}) wrote, whichever call made it.
C8_LastWriteWins ==
  /\ errors = lastSetState.val
  /\ \A c \in Cycles :
       (/\ pc[c] = "idle"
        /\ \A d \in Cycles : d < c => pc[d] # "idle"
        /\ Started + nChanges < MaxEvents) => ENABLED Submit(c)

\* the race: the later call c began, succeeded and finished with errors
\* cleared, and then the earlier call a wrote its error
C8_Witness ==
  \E a, c \in Cycles :
    /\ a < c /\ pc[a] = "done" /\ pc[c] = "done"
    /\ outcome[c].st = "fulfilled" /\ Has(c, "submit", "return")
    /\ lastSetState.by = a /\ c \in lastSetState.done
    /\ errors # Null

\* C9 as stated - after any sequence of field changes, the stored value
\* tree holds at every changed path the last value set at that path.
C9_ChangesAccumulate ==
  \A p \in Paths :
    lastSet[p] # 0 => Get(heap, Ref(values), p) = Prim(lastSet[p])

\* C10 as stated - a field change forwards a new tree in which only the
\* changed leaf differs from the tree the field was rendered with, leaves
\* every object that existed before unmodified, and shares the sibling
\* branches with the previous tree.
C10_ImmutableSet ==
  [][nChanges' = nChanges + 1 =>
       LET from == lastChange'.from
           to == lastChange'.to
           path == lastChange'.path
       IN /\ to \notin 1..Len(heap)
          /\ Get(heap', Ref(to), path) = Prim(lastSet'[path])
          /\ \A q \in Paths \ {path} : Get(heap', Ref(to), q) = Get(heap, Ref(from), q)
          /\ \A i \in 1..Len(heap) : heap'[i] = heap[i]
          /\ \A k \in Keys \ {path[1]} : heap'[to][k] = heap[from][k]]_vars

\* C11 as stated - once the error state is {fieldErrors: m}, the fields the
\* form renders resolve, at every field path, the entry of m at that path
\* as their error (and undefined where m has none).
C11_FieldErrorsReachFields ==
  (errors.t = "obj" /\ errors.hasFields) =>
    \A p \in Paths :
      /\ ~GetFieldData(FormFields, ArrayPath(p)).failed
      /\ GetFieldData(FormFields, ArrayPath(p)).fieldSchema.attr = ""
      /\ GetFieldData(FormFields, ArrayPath(p)).fieldError
           = (IF errors.fields[Last(p)] = 1 THEN Prim(1) ELSE Undef)

\* C12 - onChange(tree) stores exactly the tree it is given, an object apart
\* from the tree stored before, and leaves the error state as it is.
C12_OnChangeReplaces ==
  [][nChanges' = nChanges + 1 =>
       /\ values' = lastChange'.to
       /\ values' # values
       /\ errors' = errors /\ lastSetState' = lastSetState]_vars

C12_Witness ==
  /\ nChanges = 2 /\ values = lastChange.to
  /\ lastSet[<<"name">>] = 0
  /\ errors # Null

FieldsSchema == Schemas[fprops.schema]
\* the field definition or nested schema a key sequence names, 0 if none
RECURSIVE FieldAt(_, _)
FieldAt(node, keys) ==
  IF keys = <<>> \/ node = 0 THEN node
  ELSE FieldAt(IF Head(keys) \in Keys THEN FieldsSchema[node].kids[Head(keys)] ELSE 0,
               Tail(keys))

\* C13 as stated - for a path that names a field of the schema getFieldData
\* returns that field's definition, with the value and the error found at
\* the path (undefined where absent); for any other path it fails.
C13_ResolveField ==
  (out.op = "getFieldData" /\ out.raw.kind # "none") =>
    LET def == FieldAt(1, KeysOfPath(out.raw))
    IN IF def = 0 THEN out.data.failed
       ELSE /\ ~out.data.failed
            /\ out.data.fieldSchema = Found(def)
            /\ out.data.value = Get(heap, Ref(fprops.value), KeysOfPath(out.raw))
            /\ out.data.fieldError = ErrorGet(fprops.error, KeysOfPath(out.raw))

\* C14 as stated - a key sequence given as an array resolves as it does
\* given as a dotted string: the same normalized path, definition, value,
\* error and type defaults, and a change callback that forwards the same
\* (newValueTree, pathString, newValue, path) to the change listener.
C14_StringAndArrayAgree ==
  [][(out'.op = "onChange" /\ out'.raw.kind = "array") =>
       LET dotted == StringPath(Join(out'.raw.s))
           a == GetFieldData(fprops, out'.raw)
           d == GetFieldData(fprops, dotted)
           viaString == ChangeFieldCall(fprops, dotted, out'.forwarded.fieldValue.v)
       IN /\ ~d.failed
          /\ a.fieldPath = d.fieldPath /\ a.fieldSchema = d.fieldSchema
          /\ a.value = d.value /\ a.fieldError = d.fieldError
          /\ a.fieldType = d.fieldType
          /\ out'.forwarded.called /\ viaString.called
          /\ out'.forwarded.value = viaString.value /\ heap' = viaString.heap
          /\ out'.forwarded.fieldValue = viaString.fieldValue
          /\ out'.forwarded.fieldPath = viaString.fieldPath
          /\ out'.forwarded.fieldPathString = viaString.fieldPathString]_vars

\* the four levels getPropsForFieldData merges, for the call made
LevelNames == <<"base", "global", "field", "type">>
Level(i) ==
  CASE i = 1 -> BaseProps(fprops, out.data)
    [] i = 2 -> fprops.fieldComponentProps
    [] i = 3 -> Read(FieldsSchema, out.data.fieldSchema).fieldComponentProps
    [] i = 4 -> out.data.fieldType.fieldComponentProps
LevelsWith(k) == {i \in 1..4 : Level(i)[k].src # "none"}

\* C15 - the props of a field hold, for every key, the value of the
\* right-most level that has the key, the levels being base props, global
\* field-component props, field-level props, type-registry props.
C15_MergePrecedence ==
  (out.op = "propsFor" /\ ~out.result.failed) =>
    \A k \in PropKeys :
      IF LevelsWith(k) = {} THEN out.result.props[k] = NoProp
      ELSE \E i \in LevelsWith(k) :
             /\ \A j \in LevelsWith(k) : j <= i
             /\ out.result.props[k] = Level(i)[k]

C15_Witness ==
  /\ out.op = "propsFor" /\ ~out.result.failed
  /\ LevelsWith("placeholder") = {2, 3, 4}
  /\ out.result.props["placeholder"].src = "type"
  /\ LevelsWith("error") = {1} /\ out.result.props["error"].v = Prim(1)

\* C16 as stated - for a key present at several levels the base computed
\* value wins over global props, global props over field-level props, and
\* field-level props over type-registry props.
C16_AsStated ==
  (out.op = "propsFor" /\ ~out.result.failed) =>
    \A k \in PropKeys : \A i, j \in LevelsWith(k) :
      i < j => out.result.props[k].src # LevelNames[j]

\* C16 amended - the precedence is the reverse: type-registry props win
\* over field-level props, field-level props over global props, and global
\* props over the base computed value.
C16_ReversePrecedence ==
  (out.op = "propsFor" /\ ~out.result.failed) =>
    \A k \in PropKeys :
      /\ \A i, j \in LevelsWith(k) : i < j => out.result.props[k].src # LevelNames[i]
      /\ \/ out.result.props[k].src = "none" /\ LevelsWith(k) = {}
         \/ \E i \in LevelsWith(k) : out.result.props[k].src = LevelNames[i]

C16_Witness ==
  /\ out.op = "propsFor" /\ ~out.result.failed
  /\ LevelsWith("value") = {1, 2, 3, 4}
  /\ Level(1)["value"].v = Prim(1)
  /\ out.result.props["value"] = [src |-> "type", v |-> Prim(2)]

\* C17 - for a path that resolves, renderField renders the explicit
\* component if one is given, else the fieldComponent of the definition,
\* else the one the type registry has for the definition's type, and fails
\* exactly when none of the three gives a component.
C17_ComponentPrecedence ==
  (out.op = "renderField" /\ ~out.data.failed) =>
    LET own == Read(FieldsSchema, out.data.fieldSchema).fieldComponent
        registry == FieldTypes(fprops.fieldTypes,
                               Read(FieldsSchema, out.data.fieldSchema).type).fieldComponent
    IN IF out.fieldComponent = "" /\ own = "" /\ registry = ""
       THEN out.result.failed /\ out.result.why = "no component"
       ELSE /\ ~out.result.failed
            /\ out.result.component =
                 (IF out.fieldComponent # "" THEN out.fieldComponent
                  ELSE IF own # "" THEN own ELSE registry)

C17_Witness ==
  /\ out.op = "renderField" /\ ~out.result.failed
  /\ out.fieldComponent = ""
  /\ out.result.component = "CityPicker"
  /\ out.data.fieldType.fieldComponent = "NumberInput"

\* C18 - renderAllFields renders one label and one field per name, in the
\* order of the fields list when one is given and else in ascending
\* lexicographic order of the keys of the schema.
C18_RenderOrder ==
  (out.op = "renderAllFields" /\ ~out.result.failed) =>
    LET items == out.result.items
    IN /\ IF fprops.fields.given
          THEN /\ Len(items) = Len(fprops.fields.names)
               /\ \A i \in 1..Len(items) : items[i].key = fprops.fields.names[i]
          ELSE /\ {items[i].key : i \in 1..Len(items)}
                    = {k \in Keys : FieldsSchema[1].kids[k] # 0}
               /\ \A i, j \in 1..Len(items) :
                    i < j => Before(Spelling[items[i].key], Spelling[items[j].key])
       /\ \A i \in 1..Len(items) :
            /\ items[i].label \in {"title", "titleize"}
            /\ ~items[i].field.failed
            /\ items[i].field.key = [null |-> FALSE, s |-> <<items[i].key>>]
            /\ items[i].field.props["schema"].v
                 = Found(FieldsSchema[1].kids[items[i].key])

C18_Witness ==
  /\ out.op = "renderAllFields" /\ ~out.result.failed
  /\ ~fprops.fields.given
  /\ FieldsSchema[1].order = <<"name", "city", "address">>
  /\ [i \in 1..3 |-> out.result.items[i].key] = <<"address", "city", "name">>

\* the value tree object id stands for, read through the heap h
Snapshot(h, id) == [p \in Paths |-> Get(h, Ref(id), p)]
InFlight(c) == pc[c] \notin {"idle", "done"}

\* C19 as stated - while a submit() call is in flight the tree it took at
\* the trigger stays what it was, whatever onChange stores meanwhile; every
\* external call of the cycle is handed that tree; and no step of a cycle
\* changes the stored value tree.
C19_CycleKeepsItsTree ==
  [][/\ \A c \in Cycles :
          InFlight(c) =>
            /\ cvalues'[c] = cvalues[c]
            /\ Snapshot(heap', cvalues'[c]) = Snapshot(heap, cvalues[c])
            /\ \A i \in 1..Len(calls'[c]) :
                 calls'[c][i].ev = "call" => calls'[c][i].vals = cvalues[c]
     /\ nChanges' = nChanges => values' = values]_vars

\* C20 - when every external call completes in the end, every submit()
\* call in flight finishes, and a finished call leaves the button ready
\* for the next one; a call leaves an await only when the call it awaits
\* has returned or thrown, so it stays in flight for as long as that has
\* not happened.
C20_CyclesFinish ==
  /\ \A c \in Cycles : InFlight(c) ~> (pc[c] = "done" /\ outcome[c].st # "pending")
  /\ [](\A c, d \in Cycles :
          (pc[c] = "done" /\ d = c + 1 /\ pc[d] = "idle" /\ Started + nChanges < MaxEvents)
            => ENABLED Submit(d))
  /\ [][\A c \in Cycles :
          (InFlight(c) /\ pc'[c] # pc[c]) =>
            \E i \in (Len(calls[c]) + 1)..Len(calls'[c]) :
              /\ calls'[c][i].op = pc[c]
              /\ calls'[c][i].ev \in {"return", "throw"}]_vars

C20_Witness ==
  /\ pc[1] = "done" /\ Has(1, "submit", "throw")
  /\ pc[2] = "done" /\ 1 \in finishedBefore[2] /\ errors = Null
  /\ Has(2, "afterSubmit", "return")

====
